---- MODULE Spec2Model ----
(***************************************************************************)
(* Model of .github/scripts/quality-gate.py: the security quality gate     *)
(* that aggregates SAST, SCA and DAST counts, compares the totals with the *)
(* zero thresholds, writes quality-gate-summary.json and exits 0 or 1.     *)
(*                                                                         *)
(* Python values are tagged records: [t |-> "int", n |-> 3],               *)
(* [t |-> "float", h |-> 5] (the float 2.5, counted in halves),            *)
(* [t |-> "str", s |-> <<"3">>] (a string is its sequence of characters),  *)
(* [t |-> "null"], [t |-> "list", items |-> <<...>>] and                   *)
(* [t |-> "obj", f |-> [key |-> value]].  A file that json.load rejects    *)
(* holds [t |-> "malformed"].                                              *)
(***************************************************************************)
EXTENDS Integers, Sequences, FiniteSets, TLC

\* ------------------------------------------------------------- bounds
\* At most MaxFiles input files exist when the script starts.
MaxFiles == 2
\* A ZAP report has at most MaxSites sites, each with at most MaxAlerts alerts.
MaxSites == 2
MaxAlerts == 1

\* ------------------------------------------------------------- values
JInt(n) == [t |-> "int", n |-> n]
JFloat(h) == [t |-> "float", h |-> h]
JStr(s) == [t |-> "str", s |-> s]
JNull == [t |-> "null"]
JList(items) == [t |-> "list", items |-> items]
JObj(f) == [t |-> "obj", f |-> f]
Malformed == [t |-> "malformed"]
EmptyObj == JObj(<<>>)
EmptyList == JList(<<>>)

\* The result of an expression that may raise: the value, or the exception.
Ok(v) == [exc |-> "none", v |-> v]
Raise(e) == [exc |-> e, v |-> JNull]

Severities == <<"critical", "high", "medium", "low">>
SevSet == {"critical", "high", "medium", "low"}
Categories == {"sast", "sca", "dast"}

\* ------------------------------------------------------------- paths
\* The severities main reads a count file for, per category (SAST has none
\* for medium and low).
CountSevs == [c \in Categories |->
    IF c = "sast" THEN {"critical", "high"} ELSE SevSet]

CountFile(c, s) ==
    CASE c = "sast" /\ s = "critical" -> "sast-results/sast-critical.txt"
      [] c = "sast" /\ s = "high" -> "sast-results/sast-high.txt"
      [] c = "sca" /\ s = "critical" -> "sca-results/sca-critical.txt"
      [] c = "sca" /\ s = "high" -> "sca-results/sca-high.txt"
      [] c = "sca" /\ s = "medium" -> "sca-results/sca-medium.txt"
      [] c = "sca" /\ s = "low" -> "sca-results/sca-low.txt"
      [] c = "dast" /\ s = "critical" -> "dast-results/dast-critical.txt"
      [] c = "dast" /\ s = "high" -> "dast-results/dast-high.txt"
      [] c = "dast" /\ s = "medium" -> "dast-results/dast-medium.txt"
      [] c = "dast" /\ s = "low" -> "dast-results/dast-low.txt"

JsonFile == [c \in Categories |->
    IF c = "sast" THEN "sast-results/semgrep-results.json"
    ELSE IF c = "sca" THEN "sca-results/npm-audit-results.json"
    ELSE "dast-results/zap-report.json"]

CountPaths == UNION {{CountFile(c, s) : s \in CountSevs[c]} : c \in Categories}
JsonPaths == {JsonFile[c] : c \in Categories}

\* ------------------------------------------------------------- str, int()
IsSpace(c) == c \in {" ", "\n", "\t"}

RECURSIVE LStrip(_)
LStrip(s) == IF s # <<>> /\ IsSpace(Head(s)) THEN LStrip(Tail(s)) ELSE s

RECURSIVE RStrip(_)
RStrip(s) ==
    IF s # <<>> /\ IsSpace(s[Len(s)]) THEN RStrip(SubSeq(s, 1, Len(s) - 1)) ELSE s

\* str.strip()
strip(s) == RStrip(LStrip(s))

Digits == {"0", "1", "2", "3", "4", "5", "6", "7", "8", "9"}

DigitValue(c) ==
    CASE c = "0" -> 0 [] c = "1" -> 1 [] c = "2" -> 2 [] c = "3" -> 3
      [] c = "4" -> 4 [] c = "5" -> 5 [] c = "6" -> 6 [] c = "7" -> 7
      [] c = "8" -> 8 [] c = "9" -> 9

RECURSIVE DecimalValue(_)
DecimalValue(ds) ==
    IF ds = <<>> THEN 0
    ELSE 10 * DecimalValue(SubSeq(ds, 1, Len(ds) - 1)) + DigitValue(ds[Len(ds)])

\* int(s) of a str: surrounding whitespace is dropped, one sign is allowed,
\* and the rest must be a non-empty run of digits; otherwise ValueError.
int_of_str(s) ==
    LET body == strip(s)
        signed == body # <<>> /\ Head(body) \in {"-", "+"}
        ds == IF signed THEN Tail(body) ELSE body
    IN  IF ds # <<>> /\ \A i \in 1..Len(ds) : ds[i] \in Digits
        THEN Ok(JInt(IF signed /\ Head(body) = "-"
                     THEN 0 - DecimalValue(ds) ELSE DecimalValue(ds)))
        ELSE Raise("ValueError")

\* float to int: truncation toward zero (the float is h halves).
Trunc(h) == IF h >= 0 THEN h \div 2 ELSE 0 - ((0 - h) \div 2)

\* int(x) of any value
py_int(x) ==
    IF x.t = "int" THEN Ok(x)
    ELSE IF x.t = "float" THEN Ok(JInt(Trunc(x.h)))
    ELSE IF x.t = "str" THEN int_of_str(x.s)
    ELSE Raise("TypeError")

\* a + b
py_add(a, b) ==
    IF a.t = "int" /\ b.t = "int" THEN Ok(JInt(a.n + b.n))
    ELSE IF a.t = "int" /\ b.t = "float" THEN Ok(JFloat(2 * a.n + b.h))
    ELSE IF a.t = "float" /\ b.t = "int" THEN Ok(JFloat(a.h + 2 * b.n))
    ELSE IF a.t = "float" /\ b.t = "float" THEN Ok(JFloat(a.h + b.h))
    ELSE IF a.t = "str" /\ b.t = "str" THEN Ok(JStr(a.s \o b.s))
    ELSE IF a.t = "list" /\ b.t = "list" THEN Ok(JList(a.items \o b.items))
    ELSE Raise("TypeError")

\* a > n for an int n (numbers only: main never compares anything else)
py_gt(a, n) == IF a.t = "int" THEN a.n > n ELSE a.h > 2 * n

\* d.get(key, default): AttributeError unless d is a dict
py_get(d, key, default) ==
    IF d.t # "obj" THEN Raise("AttributeError")
    ELSE IF key \in DOMAIN d.f THEN Ok(d.f[key])
    ELSE Ok(default)

\* The elements a for loop over v visits: a list's items, a str's characters,
\* a dict's keys (each a str); any other value is not iterable.
py_iter(v) ==
    IF v.t = "list" THEN Ok(v.items)
    ELSE IF v.t = "str" THEN Ok([i \in 1..Len(v.s) |-> JStr(<<v.s[i]>>)])
    ELSE IF v.t = "obj" THEN
        LET keys == DOMAIN v.f
            RECURSIVE KeySeq(_)
            KeySeq(K) == IF K = {} THEN <<>>
                         ELSE LET k == CHOOSE x \in K : TRUE
                              IN  <<JStr(<<k>>)>> \o KeySeq(K \ {k})
        IN  Ok(KeySeq(keys))
    ELSE Raise("TypeError")

\* ------------------------------------------------------------- state
VARIABLES
    fs,            \* the input files: path |-> content, for the files that exist
    summaryFile,   \* content of quality-gate-summary.json, NoFile when absent
    pc,            \* where the script is
    sast,          \* sast_critical, sast_high
    sca,           \* sca_critical, sca_high, sca_medium, sca_low
    dast,          \* dast_critical, dast_high, dast_medium, dast_low
    total,         \* total_critical, total_high, total_medium, total_low
    failures,      \* the failures list
    summary,       \* the summary dict
    exit_code,     \* the process exit status, NotExited while running
    opened,        \* the input files opened for reading so far
    writes,        \* how often this run has written the summary file
    exc            \* the exception that escaped main, "none" if none

vars == <<fs, summaryFile, pc, sast, sca, dast, total, failures, summary,
          exit_code, opened, writes, exc>>

\* ------------------------------------------------------------- readers
\* read_count(filepath, default=0)
read_count(filepath) ==
    IF filepath \notin DOMAIN fs THEN JInt(0)
    ELSE LET content == strip(fs[filepath])
             parsed == int_of_str(content)
         IN  IF content = <<>> THEN JInt(0)
             ELSE IF parsed.exc = "none" THEN parsed.v
             ELSE JInt(0)

\* json.load(open(filepath))
json_load(filepath) ==
    IF filepath \notin DOMAIN fs THEN Raise("FileNotFoundError")
    ELSE IF fs[filepath].t = "malformed" THEN Raise("JSONDecodeError")
    ELSE Ok(fs[filepath])

ERROR == <<"E", "R", "R", "O", "R">>
WARNING == <<"W", "A", "R", "N", "I", "N", "G">>
INFO == <<"I", "N", "F", "O">>

\* r.get('extra', {}).get('severity')
SeverityOf(r) ==
    LET extra == py_get(r, "extra", EmptyObj)
    IN  IF extra.exc # "none" THEN extra ELSE py_get(extra.v, "severity", JNull)

\* sum(1 for r in results if r.get('extra', {}).get('severity') == tag)
RECURSIVE CountSeverity(_, _)
CountSeverity(results, tag) ==
    IF results = <<>> THEN Ok(JInt(0))
    ELSE LET sv == SeverityOf(Head(results))
             rest == CountSeverity(Tail(results), tag)
         IN  IF sv.exc # "none" THEN sv
             ELSE IF rest.exc # "none" THEN rest
             ELSE Ok(JInt(rest.v.n +
                          (IF sv.v.t = "str" /\ sv.v.s = tag THEN 1 ELSE 0)))

ZeroTwo == [critical |-> JInt(0), high |-> JInt(0)]
ZeroFour == [critical |-> JInt(0), high |-> JInt(0),
             medium |-> JInt(0), low |-> JInt(0)]

\* parse_semgrep_results(filepath)
parse_semgrep_results(filepath) ==
    LET data == json_load(filepath)
        results == IF data.exc # "none" THEN data
                   ELSE py_get(data.v, "results", EmptyList)
        rs == IF results.exc # "none" THEN results ELSE py_iter(results.v)
        critical == IF rs.exc # "none" THEN rs ELSE CountSeverity(rs.v, ERROR)
        high == IF rs.exc # "none" THEN rs ELSE CountSeverity(rs.v, WARNING)
    IN  IF critical.exc # "none" \/ high.exc # "none" THEN ZeroTwo
        ELSE [critical |-> critical.v, high |-> high.v]

\* parse_npm_audit_results(filepath)
parse_npm_audit_results(filepath) ==
    LET data == json_load(filepath)
        md == IF data.exc # "none" THEN data
              ELSE py_get(data.v, "metadata", EmptyObj)
        metadata == IF md.exc # "none" THEN md
                    ELSE py_get(md.v, "vulnerabilities", EmptyObj)
        field(k) == py_get(metadata.v, k, JInt(0))
    IN  IF metadata.exc # "none" \/ metadata.v.t # "obj" THEN ZeroFour
        ELSE [critical |-> field("critical").v, high |-> field("high").v,
              medium |-> field("moderate").v, low |-> field("low").v]

\* The loop body of parse_zap_results for one alert: the counters after it,
\* or the exception it raises.
ZapAlert(acc, alert) ==
    LET rc == py_get(alert, "riskcode", JInt(0))
        risk_code == IF rc.exc # "none" THEN rc ELSE py_int(rc.v)
    IN  IF risk_code.exc # "none" THEN risk_code
        ELSE IF risk_code.v.n = 3
             THEN Ok([acc EXCEPT !.critical = JInt(@.n + 1)])
        ELSE IF risk_code.v.n = 2 THEN Ok([acc EXCEPT !.high = JInt(@.n + 1)])
        ELSE IF risk_code.v.n = 1 THEN Ok([acc EXCEPT !.medium = JInt(@.n + 1)])
        ELSE IF risk_code.v.n = 0 THEN Ok([acc EXCEPT !.low = JInt(@.n + 1)])
        ELSE Ok(acc)

\* for alert in alerts
RECURSIVE ZapAlerts(_, _)
ZapAlerts(acc, alerts) ==
    IF alerts = <<>> THEN Ok(acc)
    ELSE LET one == ZapAlert(acc, Head(alerts))
         IN  IF one.exc # "none" THEN one ELSE ZapAlerts(one.v, Tail(alerts))

\* for site in sites
RECURSIVE ZapSites(_, _)
ZapSites(acc, sites) ==
    IF sites = <<>> THEN Ok(acc)
    ELSE LET al == py_get(Head(sites), "alerts", EmptyList)
             alerts == IF al.exc # "none" THEN al ELSE py_iter(al.v)
             one == IF alerts.exc # "none" THEN alerts
                    ELSE ZapAlerts(acc, alerts.v)
         IN  IF one.exc # "none" THEN one ELSE ZapSites(one.v, Tail(sites))

\* parse_zap_results(filepath)
parse_zap_results(filepath) ==
    LET data == json_load(filepath)
        st == IF data.exc # "none" THEN data ELSE py_get(data.v, "site", EmptyList)
        sites == IF st.exc # "none" THEN st ELSE py_iter(st.v)
        counted == IF sites.exc # "none" THEN sites ELSE ZapSites(ZeroFour, sites.v)
    IN  IF counted.exc # "none" THEN ZeroFour ELSE counted.v

\* ------------------------------------------------------------- inputs
SeqsUpTo(S, n) == UNION {[1..k -> S] : k \in 0..n}

\* What a count file may hold: nothing, a count followed by a newline, a
\* negative number, text that is no integer.
CountContents == {<<>>, <<"2", "\n">>, <<"-", "1">>, <<"x">>}

SemgrepResult(sev) == JObj([extra |-> JObj([severity |-> JStr(sev)])])
\* Semgrep reports: unparsable, not an object, without results, results
\* that are no list, and result lists (one of them with a result that is
\* no object, one with two ERROR and one WARNING).
SemgrepReports ==
    {Malformed, EmptyList, EmptyObj, JObj([results |-> JNull])}
    \cup {JObj([results |-> JList(rs)]) : rs \in
            {<<>>, <<SemgrepResult(ERROR)>>, <<SemgrepResult(WARNING)>>,
             <<SemgrepResult(INFO)>>,
             <<SemgrepResult(ERROR), JNull>>,
             <<SemgrepResult(ERROR), SemgrepResult(ERROR), SemgrepResult(WARNING)>>}}

NpmKeys == {"critical", "high", "moderate", "low"}
NpmReport(v) == JObj([metadata |-> JObj([vulnerabilities |-> v])])
\* Count fields that are no non-negative integers: a negative number, a
\* float, a numeric string, null.
NpmOddValues == {JInt(0 - 1), JFloat(3), JStr(<<"2">>), JNull}
\* npm audit reports: unparsable, not an object, without metadata or
\* vulnerabilities or count fields, every count field 0 or 1, and one count
\* field (the first or the last) holding an odd value.
NpmReports ==
    {Malformed, EmptyList, EmptyObj, NpmReport(JNull), NpmReport(EmptyObj)}
    \cup {NpmReport(JObj(b)) : b \in [NpmKeys -> {JInt(0), JInt(1)}]}
    \cup {NpmReport(JObj([k \in NpmKeys |-> IF k = key THEN v ELSE JInt(0)])) :
            key \in {"critical", "low"}, v \in NpmOddValues}

\* riskcode values: the four risk codes as ZAP writes them (strings), a risk
\* code as a number, a code outside 0..3, a string that is no number, null.
RiskCodes ==
    {JStr(<<"0">>), JStr(<<"1">>), JStr(<<"2">>), JStr(<<"3">>), JInt(3),
     JInt(4), JStr(<<"x">>), JNull}
\* Alerts: one per riskcode value, and one without the field.
ZapAlertsOf(riskcodes) == {JObj([riskcode |-> r]) : r \in riskcodes} \cup {EmptyObj}
ZapSitesOf(riskcodes, maxAlerts) ==
    {EmptyObj}
    \cup {JObj([alerts |-> JList(as)]) : as \in SeqsUpTo(ZapAlertsOf(riskcodes), maxAlerts)}
ZapReportsOf(riskcodes, maxSites, maxAlerts) ==
    {Malformed, EmptyList, EmptyObj, JObj([site |-> JNull])}
    \cup {JObj([site |-> JList(ss)]) :
            ss \in SeqsUpTo(ZapSitesOf(riskcodes, maxAlerts), maxSites)}
\* The ZAP reports of the full run: one site with at most one alert, of
\* risk code "3", "1" or "x".
ZapReports == ZapReportsOf({JStr(<<"3">>), JStr(<<"1">>), JStr(<<"x">>)}, 1, 1)
\* The ZAP reports the parser is checked on.
ZapReportsRich == ZapReportsOf(RiskCodes, MaxSites, MaxAlerts)

ContentsOf(p) ==
    IF p \in CountPaths THEN CountContents
    ELSE IF p = JsonFile["sast"] THEN SemgrepReports
    ELSE IF p = JsonFile["sca"] THEN NpmReports
    ELSE ZapReports

\* ------------------------------------------------------------- main
thresholds == [critical |-> 0, high |-> 0, medium |-> 0, low |-> 0]

NotExited == 0 - 1

\* os.path.exists(path)
Exists(path) == path \in DOMAIN fs

\* A gate that prefers the JSON report when both exist.
UseCountFilesUnlessJson(c) ==
    Exists(CountFile(c, "critical")) /\ ~Exists(JsonFile[c])

\* A gate that takes the count-file branch when any count file exists.
UseCountFilesAny(c) == \E s \in CountSevs[c] : Exists(CountFile(c, s))

\* The condition of the first branch of each category's if/elif: the
\* category's critical count file exists.
UseCountFiles(c) == Exists(CountFile(c, "critical"))

\* The condition of the elif: the category's JSON report exists.
UseJson(c) == Exists(JsonFile[c])

\* The files the count-file branch opens: read_count opens each one that
\* exists.
CountFilesOpened(c) == {CountFile(c, s) : s \in CountSevs[c]} \cap DOMAIN fs

\* a + b + c, left to right
Add3(a, b, c) ==
    LET x == py_add(a, b) IN IF x.exc # "none" THEN x ELSE py_add(x.v, c)

\* Totals whose medium sum takes the DAST low count for the DAST medium
\* count.
TotalOfMixedUp(sev) ==
    IF sev = "critical" THEN Add3(sast.critical, sca.critical, dast.critical)
    ELSE IF sev = "high" THEN Add3(sast.high, sca.high, dast.high)
    ELSE IF sev = "medium" THEN py_add(sca.medium, dast.low)
    ELSE py_add(sca.low, dast.low)

\* total_critical, total_high, total_medium, total_low
TotalOf(sev) ==
    IF sev = "critical" THEN Add3(sast.critical, sca.critical, dast.critical)
    ELSE IF sev = "high" THEN Add3(sast.high, sca.high, dast.high)
    ELSE IF sev = "medium" THEN py_add(sca.medium, dast.medium)
    ELSE py_add(sca.low, dast.low)

\* total_critical + total_high + total_medium + total_low
GrandTotal(tot) ==
    py_add(py_add(py_add(tot.critical, tot.high).v, tot.medium).v, tot.low).v

\* One entry of the failures list: the message names the bucket, the total
\* and the threshold.
Failure(sev, tot) == [bucket |-> sev, total |-> tot[sev], threshold |-> thresholds[sev]]

\* if total_X > thresholds['X']
Exceeds(sev, tot) == py_gt(tot[sev], thresholds[sev])

\* The four checks made in the order low, medium, high, critical.
CollectFailuresReversed(tot) ==
    LET f1 == IF Exceeds("low", tot) THEN <<Failure("low", tot)>> ELSE <<>>
        f2 == IF Exceeds("medium", tot) THEN Append(f1, Failure("medium", tot)) ELSE f1
        f3 == IF Exceeds("high", tot) THEN Append(f2, Failure("high", tot)) ELSE f2
        f4 == IF Exceeds("critical", tot) THEN Append(f3, Failure("critical", tot)) ELSE f3
    IN  f4

\* The four if statements that append to failures, in source order.
CollectFailures(tot) ==
    LET f1 == IF Exceeds("critical", tot) THEN <<Failure("critical", tot)>> ELSE <<>>
        f2 == IF Exceeds("high", tot) THEN Append(f1, Failure("high", tot)) ELSE f1
        f3 == IF Exceeds("medium", tot) THEN Append(f2, Failure("medium", tot)) ELSE f2
        f4 == IF Exceeds("low", tot) THEN Append(f3, Failure("low", tot)) ELSE f3
    IN  f4

\* The summary dict
MakeSummary(sa, sc, da, tot, fl) ==
    [total_critical |-> tot.critical, total_high |-> tot.high,
     total_medium |-> tot.medium, total_low |-> tot.low,
     total |-> GrandTotal(tot),
     sast |-> [critical |-> sa.critical, high |-> sa.high,
               medium |-> JInt(0), low |-> JInt(0)],
     sca |-> [critical |-> sc.critical, high |-> sc.high,
              medium |-> sc.medium, low |-> sc.low],
     dast |-> [critical |-> da.critical, high |-> da.high,
               medium |-> da.medium, low |-> da.low],
     thresholds |-> thresholds,
     passed |-> (Len(fl) = 0),
     failures |-> fl]

\* An exit status that counts the failures.
ReturnCodeCount(fl) == Len(fl)

\* return 1 if failures else 0
ReturnCode(fl) == IF fl # <<>> THEN 1 ELSE 0

\* The summary an earlier run left in quality-gate-summary.json.
PriorSummary ==
    LET tot == [critical |-> JInt(1), high |-> JInt(0),
                medium |-> JInt(0), low |-> JInt(0)]
    IN  MakeSummary([critical |-> JInt(1), high |-> JInt(0)], ZeroFour, ZeroFour,
                    tot, <<Failure("critical", tot)>>)
NoSummary == [passed |-> FALSE, failures |-> <<>>]

TypeOK ==
    /\ DOMAIN fs \subseteq CountPaths \cup JsonPaths
    /\ pc \in {"start", "sca", "dast", "aggregate", "check", "write",
               "verdict", "except", "exited"}
    /\ exit_code \in {NotExited, 0, 1}
    /\ opened \subseteq DOMAIN fs
    /\ writes \in 0..1
    /\ exc \in {"none", "TypeError", "OSError"}

\* main has not run yet: the counters are zero.
InitRun ==
    /\ summaryFile = PriorSummary
    /\ pc = "start"
    /\ sast = ZeroTwo
    /\ sca = ZeroFour
    /\ dast = ZeroFour
    /\ total = ZeroFour
    /\ failures = <<>>
    /\ summary = NoSummary
    /\ exit_code = NotExited
    /\ opened = {}
    /\ writes = 0
    /\ exc = "none"

\* No input file exists yet.
Init == fs = <<>> /\ InitRun

\* Only the ZAP report exists.
InitZap == (\E r \in ZapReportsRich : fs = (JsonFile["dast"] :> r)) /\ InitRun

\* Before main starts, an earlier pipeline job leaves an input file.
CreateFile(p, c) ==
    /\ pc = "start"
    /\ p \notin DOMAIN fs
    /\ Cardinality(DOMAIN fs) < MaxFiles
    /\ fs' = fs @@ (p :> c)
    /\ UNCHANGED <<summaryFile, pc, sast, sca, dast, total, failures, summary,
                   exit_code, opened, writes, exc>>

ResolveSast ==
    /\ pc = "start"
    /\ pc' = "sca"
    /\ IF UseCountFiles("sast")
       THEN /\ sast' = [critical |-> read_count(CountFile("sast", "critical")),
                        high |-> read_count(CountFile("sast", "high"))]
            /\ opened' = opened \cup CountFilesOpened("sast")
       ELSE IF UseJson("sast")
       THEN /\ sast' = parse_semgrep_results(JsonFile["sast"])
            /\ opened' = opened \cup {JsonFile["sast"]}
       ELSE UNCHANGED <<sast, opened>>
    /\ UNCHANGED <<fs, summaryFile, sca, dast, total, failures, summary,
                   exit_code, writes, exc>>

ResolveSca ==
    /\ pc = "sca"
    /\ pc' = "dast"
    /\ IF UseCountFiles("sca")
       THEN /\ sca' = [critical |-> read_count(CountFile("sca", "critical")),
                       high |-> read_count(CountFile("sca", "high")),
                       medium |-> read_count(CountFile("sca", "medium")),
                       low |-> read_count(CountFile("sca", "low"))]
            /\ opened' = opened \cup CountFilesOpened("sca")
       ELSE IF UseJson("sca")
       THEN /\ sca' = parse_npm_audit_results(JsonFile["sca"])
            /\ opened' = opened \cup {JsonFile["sca"]}
       ELSE UNCHANGED <<sca, opened>>
    /\ UNCHANGED <<fs, summaryFile, sast, dast, total, failures, summary,
                   exit_code, writes, exc>>

ResolveDast ==
    /\ pc = "dast"
    /\ pc' = "aggregate"
    /\ IF UseCountFiles("dast")
       THEN /\ dast' = [critical |-> read_count(CountFile("dast", "critical")),
                        high |-> read_count(CountFile("dast", "high")),
                        medium |-> read_count(CountFile("dast", "medium")),
                        low |-> read_count(CountFile("dast", "low"))]
            /\ opened' = opened \cup CountFilesOpened("dast")
       ELSE IF UseJson("dast")
       THEN /\ dast' = parse_zap_results(JsonFile["dast"])
            /\ opened' = opened \cup {JsonFile["dast"]}
       ELSE UNCHANGED <<dast, opened>>
    /\ UNCHANGED <<fs, summaryFile, sast, sca, total, failures, summary,
                   exit_code, writes, exc>>

\* The four sums; a sum that raises leaves main for the handler of __main__.
Aggregate ==
    /\ pc = "aggregate"
    /\ IF \E s \in SevSet : TotalOf(s).exc # "none"
       THEN /\ exc' = "TypeError"
            /\ pc' = "except"
            /\ UNCHANGED total
       ELSE /\ total' = [s \in SevSet |-> TotalOf(s).v]
            /\ pc' = "check"
            /\ UNCHANGED exc
    /\ UNCHANGED <<fs, summaryFile, sast, sca, dast, failures, summary,
                   exit_code, opened, writes>>

\* The threshold checks and the summary dict.
CheckThresholds ==
    /\ pc = "check"
    /\ pc' = "write"
    /\ failures' = CollectFailures(total)
    /\ summary' = MakeSummary(sast, sca, dast, total, CollectFailures(total))
    /\ UNCHANGED <<fs, summaryFile, sast, sca, dast, total, exit_code, opened,
                   writes, exc>>

\* open(output_file, 'w') and json.dump: the file then holds the summary,
\* unless the file cannot be opened, which raises out of main.
WriteSummary ==
    /\ pc = "write"
    /\ \E ok \in BOOLEAN :
          IF ok
          THEN /\ summaryFile' = summary
               /\ writes' = writes + 1
               /\ pc' = "verdict"
               /\ UNCHANGED exc
          ELSE /\ exc' = "OSError"
               /\ pc' = "except"
               /\ UNCHANGED <<summaryFile, writes>>
    /\ UNCHANGED <<fs, sast, sca, dast, total, failures, summary, exit_code,
                   opened>>

\* main returns and sys.exit(exit_code) ends the process.
Verdict ==
    /\ pc = "verdict"
    /\ pc' = "exited"
    /\ exit_code' = ReturnCode(failures)
    /\ UNCHANGED <<fs, summaryFile, sast, sca, dast, total, failures, summary,
                   opened, writes, exc>>

\* except Exception: sys.exit(1)
HandleFatal ==
    /\ pc = "except"
    /\ pc' = "exited"
    /\ exit_code' = 1
    /\ UNCHANGED <<fs, summaryFile, sast, sca, dast, total, failures, summary,
                   opened, writes, exc>>

Run ==
    \/ ResolveSast
    \/ ResolveSca
    \/ ResolveDast
    \/ Aggregate
    \/ CheckThresholds
    \/ WriteSummary
    \/ Verdict
    \/ HandleFatal

Next ==
    \/ \E p \in CountPaths \cup JsonPaths : \E c \in ContentsOf(p) : CreateFile(p, c)
    \/ Run

Spec == Init /\ [][Next]_vars

\* The script run on a ZAP report alone.
SpecZap == InitZap /\ [][Run]_vars

\* ------------------------------------------------------------- claims
\* The counters of a category, and whether main is past its if/elif.
Counts(c) == IF c = "sast" THEN sast ELSE IF c = "sca" THEN sca ELSE dast
Resolved(c) ==
    IF c = "sast" THEN pc # "start"
    ELSE IF c = "sca" THEN pc \notin {"start", "sca"}
    ELSE pc \notin {"start", "sca", "dast"}
ParseJson(c) ==
    IF c = "sast" THEN parse_semgrep_results(JsonFile[c])
    ELSE IF c = "sca" THEN parse_npm_audit_results(JsonFile[c])
    ELSE parse_zap_results(JsonFile[c])

\* This run has written the summary file.
Written == writes = 1

\* A number's value in halves; a non-negative integer.
Halves(v) == IF v.t = "int" THEN 2 * v.n ELSE v.h
IsNonNegInt(v) == v.t = "int" /\ v.n >= 0

SummaryTotal(s, sev) ==
    IF sev = "critical" THEN s.total_critical
    ELSE IF sev = "high" THEN s.total_high
    ELSE IF sev = "medium" THEN s.total_medium
    ELSE s.total_low

\* C1: in every written summary, passed is true and failures is empty
\* exactly when all four totals are 0.
C1_PassIffAllTotalsZero ==
    Written =>
        ((summaryFile.passed /\ summaryFile.failures = <<>>)
            <=> \A sev \in SevSet : Halves(SummaryTotal(summaryFile, sev)) = 0)

\* C2 as claimed: once a category is resolved, if any of its count files
\* exists and its JSON report exists, every count of the category is the
\* value read from its count file and the JSON report was not opened.
C2_AnyCountFileWins ==
    \A c \in Categories :
        (/\ Resolved(c)
         /\ \E s \in CountSevs[c] : Exists(CountFile(c, s))
         /\ Exists(JsonFile[c]))
        => /\ \A s \in CountSevs[c] : Counts(c)[s] = read_count(CountFile(c, s))
           /\ JsonFile[c] \notin opened

\* C2 as amended: once a category is resolved, if its critical count file
\* exists and its JSON report exists, every count of the category (and of
\* the written summary) is the value read from its count file and the JSON
\* report was not opened.
C2_CriticalCountFileWins ==
    \A c \in Categories :
        (/\ Resolved(c)
         /\ Exists(CountFile(c, "critical"))
         /\ Exists(JsonFile[c]))
        => /\ \A s \in CountSevs[c] : Counts(c)[s] = read_count(CountFile(c, s))
           /\ JsonFile[c] \notin opened
           /\ Written =>
                \A s \in CountSevs[c] : summaryFile[c][s] = read_count(CountFile(c, s))

\* The run has ended with the SCA counts taken from sca-critical.txt (2)
\* although the npm audit report, which says 1, exists too.
C2_Witness ==
    /\ pc = "exited"
    /\ Written
    /\ Exists(CountFile("sca", "critical"))
    /\ Exists(JsonFile["sca"])
    /\ parse_npm_audit_results(JsonFile["sca"]).critical = JInt(1)
    /\ summaryFile.sca.critical = JInt(2)

\* C3: no content of the input files makes an exception escape main: a
\* run leaves main by an exception only when the summary file cannot be
\* written.
C3_NoInputAborts == pc \in {"except", "exited"} => exc \in {"none", "OSError"}

\* A ZAP report whose sites all list alerts that all carry a riskcode.
WellFormedZap(r) ==
    /\ r.t = "obj" /\ "site" \in DOMAIN r.f /\ r.f.site.t = "list"
    /\ \A i \in 1..Len(r.f.site.items) :
          LET site == r.f.site.items[i]
          IN  /\ site.t = "obj" /\ "alerts" \in DOMAIN site.f
              /\ site.f.alerts.t = "list"
              /\ \A j \in 1..Len(site.f.alerts.items) :
                    /\ site.f.alerts.items[j].t = "obj"
                    /\ "riskcode" \in DOMAIN site.f.alerts.items[j].f
\* How many alerts of the report have risk code k, given as the number k
\* or as the string of its digit.
RiskCodeIs(alert, k, digit) ==
    alert.f.riskcode \in {JInt(k), JStr(<<digit>>)}
AlertsWith(r, k, digit) ==
    Cardinality({ij \in (1..MaxSites) \X (1..MaxAlerts) :
        /\ ij[1] <= Len(r.f.site.items)
        /\ ij[2] <= Len(r.f.site.items[ij[1]].f.alerts.items)
        /\ RiskCodeIs(r.f.site.items[ij[1]].f.alerts.items[ij[2]], k, digit)})

\* C4: after the ZAP report is parsed, critical, high, medium and low are
\* the numbers of alerts with risk code 3, 2, 1 and 0; every other alert
\* adds nothing and takes nothing away.
C4_ZapCountsByRiskcode ==
    (/\ Resolved("dast")
     /\ ~Exists(CountFile("dast", "critical"))
     /\ Exists(JsonFile["dast"])
     /\ WellFormedZap(fs[JsonFile["dast"]]))
    => LET r == fs[JsonFile["dast"]]
       IN  /\ dast.critical = JInt(AlertsWith(r, 3, "3"))
           /\ dast.high = JInt(AlertsWith(r, 2, "2"))
           /\ dast.medium = JInt(AlertsWith(r, 1, "1"))
           /\ dast.low = JInt(AlertsWith(r, 0, "0"))

\* C5: in every written summary each total is the sum of the three
\* categories' counts, the SAST medium and low counts are 0, and total is
\* the sum of the four totals.
C5_TotalsAreSums ==
    Written =>
        /\ summaryFile.sast.medium = JInt(0)
        /\ summaryFile.sast.low = JInt(0)
        /\ \A sev \in SevSet :
              Halves(SummaryTotal(summaryFile, sev)) =
                  Halves(summaryFile.sast[sev]) + Halves(summaryFile.sca[sev])
                      + Halves(summaryFile.dast[sev])
        /\ Halves(summaryFile.total) =
              Halves(summaryFile.total_critical) + Halves(summaryFile.total_high)
                  + Halves(summaryFile.total_medium) + Halves(summaryFile.total_low)

\* A written summary whose medium total adds an SCA count and a DAST count.
C5_Witness ==
    /\ Written
    /\ summaryFile.sca.medium = JInt(1)
    /\ summaryFile.dast.medium = JInt(1)
    /\ summaryFile.total_medium = JInt(2)
    /\ summaryFile.total = JInt(2)

\* C6: every count and every total of a written summary is a non-negative
\* integer.
C6_CountsNonNegative ==
    Written =>
        /\ \A c \in Categories : \A sev \in SevSet : IsNonNegInt(summaryFile[c][sev])
        /\ \A sev \in SevSet : IsNonNegInt(SummaryTotal(summaryFile, sev))

\* C7: the exit status is 0 or 1; it is 0 exactly when this run wrote a
\* summary with passed true and no failures, and 1 exactly when the gate
\* failed or an exception escaped main; before the exit there is none.
C7_ExitStatus ==
    /\ pc # "exited" => exit_code = NotExited
    /\ pc = "exited" =>
        /\ exit_code \in {0, 1}
        /\ exit_code = 0 <=>
              (exc = "none" /\ Written /\ summaryFile.passed
               /\ summaryFile.failures = <<>>)
        /\ exit_code = 1 <=>
              (exc # "none" \/ (Written /\ ~summaryFile.passed))

\* A run that read an input file, passed the gate and exited 0.
C7_Witness ==
    /\ pc = "exited"
    /\ exit_code = 0
    /\ opened # {}
    /\ summaryFile.passed

\* The position of a bucket in the order critical, high, medium, low.
BucketIndex(b) == CHOOSE i \in 1..4 : Severities[i] = b

\* C8: the failures of a written summary hold one entry for each bucket
\* whose total exceeds its threshold, none for any other bucket, in the
\* order critical, high, medium, low.
C8_FailuresInOrder ==
    Written =>
        LET fl == summaryFile.failures
            over == {sev \in SevSet :
                        Halves(SummaryTotal(summaryFile, sev)) > 2 * thresholds[sev]}
        IN  /\ Len(fl) = Cardinality(over)
            /\ {fl[i].bucket : i \in 1..Len(fl)} = over
            /\ \A i \in 1..Len(fl) :
                  /\ fl[i].total = SummaryTotal(summaryFile, fl[i].bucket)
                  /\ fl[i].threshold = thresholds[fl[i].bucket]
            /\ \A i, j \in 1..Len(fl) :
                  i < j => BucketIndex(fl[i].bucket) < BucketIndex(fl[j].bucket)

\* A written summary whose failures are the high and the low bucket.
C8_Witness ==
    /\ Written
    /\ Len(summaryFile.failures) = 2
    /\ summaryFile.failures[1].bucket = "high"
    /\ summaryFile.failures[2].bucket = "low"

\* C9: when the process has exited (the output file being writable), this
\* run has written the summary file once and the file holds this run's
\* summary.
C9_SummaryAlwaysWritten ==
    (pc = "exited" /\ exc # "OSError") =>
        /\ writes = 1
        /\ summaryFile = MakeSummary(sast, sca, dast, total, failures)

\* The count a count file stands for: 0 when it is missing, empty or no
\* integer.
IsCountOf(v, path) ==
    IF ~Exists(path) THEN v = JInt(0)
    ELSE IF strip(fs[path]) = <<>> THEN v = JInt(0)
    ELSE IF int_of_str(fs[path]).exc # "none" THEN v = JInt(0)
    ELSE v = int_of_str(fs[path]).v

\* C10: once a category is resolved: if its critical count file exists,
\* each of its counts is the count of its own count file and the JSON
\* report was not opened; otherwise none of its count files was opened and
\* the counts are those of the JSON report if it exists, else all 0.
C10_CriticalFileDecides ==
    \A c \in Categories :
        Resolved(c) =>
            IF Exists(CountFile(c, "critical"))
            THEN /\ \A s \in CountSevs[c] : IsCountOf(Counts(c)[s], CountFile(c, s))
                 /\ JsonFile[c] \notin opened
            ELSE /\ \A s \in CountSevs[c] : CountFile(c, s) \notin opened
                 /\ IF Exists(JsonFile[c])
                    THEN Counts(c) = ParseJson(c) /\ JsonFile[c] \in opened
                    ELSE \A s \in CountSevs[c] : Counts(c)[s] = JInt(0)

\* A resolved category without its critical count file, whose high count
\* file says 2: the counts come from the JSON report, the high count file
\* was not opened.
C10_Witness ==
    /\ Resolved("sca")
    /\ ~Exists(CountFile("sca", "critical"))
    /\ Exists(CountFile("sca", "high"))
    /\ read_count(CountFile("sca", "high")) = JInt(2)
    /\ Exists(JsonFile["sca"])
    /\ sca.high = JInt(1)

====
